---- MODULE Spec2Model ----
(***************************************************************************)
(* A model of the Pulumi program of thuongdv/react-example (iac/):         *)
(* the configuration loader (iac/src/config.ts), the service factory       *)
(* (iac/src/deployment/factory.ts), the topology builder createVpc, the    *)
(* registry provisioner createEcrRepositories, the orchestrator            *)
(* createEcsCluster / createEcsService, ReactService.deploy and the        *)
(* program entry point (iac/index.ts).                                     *)
(*                                                                         *)
(* Text that the program parses or matches (setting values, CIDR blocks)   *)
(* is a tuple of one-character strings; text the program only compares or  *)
(* concatenates (names, URIs) is a TLA+ string.                            *)
(***************************************************************************)
EXTENDS Integers, Sequences, FiniteSets, TLC

VARIABLES
    pc,          \* position of the run: "idle", the entry point's steps, "done"
    call,        \* the exported operation that was invoked, with its arguments
    ret,         \* what that invocation returned or threw
    stack,       \* the Pulumi stack configuration (setting name -> text)
    zones,       \* how many availability zones the environment reports
    registered,  \* the resources registered with the engine, in program order
    service,     \* the service instance the entry point holds
    needs,       \* logical name -> the logical names its arguments read
    faulty,      \* the resources whose creation the provider will reject
    queue,       \* registered resources waiting for a free operation slot
    inflight,    \* resources the provider is creating right now
    created,     \* the registered resources the provider has created in this run
    rejected,    \* the registered resources whose creation the provider rejected
    cloud,       \* the stack's resources as earlier runs left them, by logical name
    deploys      \* how many runs of the program the stack has seen

vars == <<pc, call, ret, stack, zones, registered, service,
          needs, faulty, queue, inflight, created, rejected, cloud, deploys>>

\* what the engine keeps: untouched while the program itself runs
engineVars == <<needs, faulty, queue, inflight, created, rejected, cloud, deploys>>

(***************************************************************************)
(* Bounds of the model.                                                    *)
(***************************************************************************)
MaxAzCount == 101    \* largest azCount handed to createVpc
SmallAzCount == 5    \* azCount up to here meets every CIDR block and zone count
NegativeAzCounts == 2 \* createVpc is also handed -NegativeAzCounts .. 0
MaxZones == 4        \* the environment reports 1 .. MaxZones available zones
MaxAdditionalPorts == 2 \* createEcsService is handed up to this many additional ports
MaxParallel == 2     \* resource operations the engine runs at a time
MaxRejections == 1   \* creations the provider rejects in one run
MaxDeploys == 3      \* deploys of one stack the model follows

(***************************************************************************)
(* JavaScript values.                                                      *)
(***************************************************************************)
\* a setting that is not configured, for text values and for parsed text
undefined == "<undefined>"
undefinedText == <<"<undefined>">>

\* numbers: an integer, NaN, or an omitted optional number
Num(n) == [kind |-> "num", val |-> n]
NaN == [kind |-> "nan", val |-> 0]
undefinedNumber == [kind |-> "undefined", val |-> 0]

IsNumber(x) == x.kind = "num"
\* ToBoolean of a number: 0, NaN and undefined are falsy
TruthyNumber(x) == x.kind = "num" /\ x.val # 0
\* x < y and x > y: false as soon as an operand is NaN
LessThan(x, y) == x.kind = "num" /\ y.kind = "num" /\ x.val < y.val
GreaterThan(x, y) == LessThan(y, x)

\* ToBoolean of text: undefined and the empty string are falsy
TruthyText(t) == t # undefinedText /\ t # <<>>
TruthyString(s) == s # undefined /\ s # ""

DigitChars == <<"0", "1", "2", "3", "4", "5", "6", "7", "8", "9">>
IsDigit(c) == \E d \in 1..10 : DigitChars[d] = c
DigitValue(c) == (CHOOSE d \in 1..10 : DigitChars[d] = c) - 1

RECURSIVE NumberToChars(_)
\* Number.prototype.toString of a natural number, as characters
NumberToChars(n) ==
    IF n < 10 THEN <<DigitChars[n + 1]>>
    ELSE NumberToChars(n \div 10) \o <<DigitChars[(n % 10) + 1]>>

RECURSIVE NumberToString(_)
\* Number.prototype.toString of an integer, as a string
NumberToString(n) ==
    IF n < 0 THEN "-" \o NumberToString(-n)
    ELSE IF n < 10 THEN DigitChars[n + 1]
    ELSE NumberToString(n \div 10) \o DigitChars[(n % 10) + 1]

RECURSIVE DigitRun(_, _)
\* how many decimal digits stand in t from position i on
DigitRun(t, i) ==
    IF i <= Len(t) /\ IsDigit(t[i]) THEN 1 + DigitRun(t, i + 1) ELSE 0

RECURSIVE DecimalValue(_, _, _)
\* the value of the n digits of t that start at position i
DecimalValue(t, i, n) ==
    IF n = 0 THEN 0
    ELSE 10 * DecimalValue(t, i, n - 1) + DigitValue(t[i + n - 1])

(***************************************************************************)
(* Number.parseInt(text) with no radix (config.ts:52-71).                  *)
(***************************************************************************)
HexLower == <<"0", "1", "2", "3", "4", "5", "6", "7", "8", "9",
              "a", "b", "c", "d", "e", "f">>
HexUpper == <<"0", "1", "2", "3", "4", "5", "6", "7", "8", "9",
              "A", "B", "C", "D", "E", "F">>
IsHexDigit(c) == \E d \in 1..16 : HexLower[d] = c \/ HexUpper[d] = c
HexDigitValue(c) == (CHOOSE d \in 1..16 : HexLower[d] = c \/ HexUpper[d] = c) - 1

RECURSIVE HexRun(_, _)
HexRun(t, i) ==
    IF i <= Len(t) /\ IsHexDigit(t[i]) THEN 1 + HexRun(t, i + 1) ELSE 0

RECURSIVE HexValue(_, _, _)
HexValue(t, i, n) ==
    IF n = 0 THEN 0
    ELSE 16 * HexValue(t, i, n - 1) + HexDigitValue(t[i + n - 1])

RECURSIVE SkipWhiteSpace(_, _)
SkipWhiteSpace(t, i) ==
    IF i <= Len(t) /\ t[i] = " " THEN SkipWhiteSpace(t, i + 1) ELSE i

\* leading white space, an optional sign, an optional 0x, then the longest
\* run of digits; NaN when that run is empty
parseInt(t) ==
    LET i0 == SkipWhiteSpace(t, 1)
        signed == i0 <= Len(t) /\ t[i0] \in {"-", "+"}
        negative == signed /\ t[i0] = "-"
        i1 == IF signed THEN i0 + 1 ELSE i0
        hex == i1 + 1 <= Len(t) /\ t[i1] = "0" /\ t[i1 + 1] \in {"x", "X"}
        i2 == IF hex THEN i1 + 2 ELSE i1
        n == IF hex THEN HexRun(t, i2) ELSE DigitRun(t, i2)
        v == IF hex THEN HexValue(t, i2, n) ELSE DecimalValue(t, i2, n)
    IN  IF n = 0 THEN NaN ELSE Num(IF negative THEN -v ELSE v)

(***************************************************************************)
(* /^\d{1,3}\.\d{1,3}\.\d{1,3}\.\d{1,3}\/\d{1,2}$/.test(text)              *)
(* (config.ts:137).  Every digit group is followed by a character that is  *)
(* no digit or by the end, so a group matches exactly a maximal digit run. *)
(***************************************************************************)
RECURSIVE MatchOctets(_, _, _)
\* the position after k groups \d{1,3} separated by ".", or 0 for no match
MatchOctets(t, i, k) ==
    LET n == DigitRun(t, i)
    IN  IF n < 1 \/ n > 3 THEN 0
        ELSE IF k = 1 THEN i + n
        ELSE IF i + n <= Len(t) /\ t[i + n] = "." THEN MatchOctets(t, i + n + 1, k - 1)
        ELSE 0

CidrPatternTest(t) ==
    LET slash == MatchOctets(t, 1, 4)
        n == DigitRun(t, slash + 1)
    IN  /\ slash # 0
        /\ slash <= Len(t)
        /\ t[slash] = "/"
        /\ n \in 1..2
        /\ slash + n = Len(t)

(***************************************************************************)
(* Outcomes of a call.                                                     *)
(***************************************************************************)
Returned(v) == [threw |-> FALSE, value |-> v]
Threw(e) == [threw |-> TRUE, error |-> e]
NoReturn == [threw |-> FALSE, value |-> "pending"]

(***************************************************************************)
(* validateConfig (config.ts:119-154).                                     *)
(***************************************************************************)
MinAz == 1
MaxAz == 4

ServiceNameError(config) ==
    IF ~TruthyString(config.serviceName) \/ Len(config.serviceName) = 0
    THEN << <<"serviceName is required">> >> ELSE <<>>

EnvironmentNameError(config) ==
    IF ~TruthyString(config.environmentName) \/ Len(config.environmentName) = 0
    THEN << <<"environmentName is required">> >> ELSE <<>>

CidrBlockError(config) ==
    IF ~CidrPatternTest(config.vpcCidrBlock)
    THEN << <<"Invalid CIDR block: ", config.vpcCidrBlock,
              ". Expected format: x.x.x.x/xx">> >>
    ELSE <<>>

AzCountError(config) ==
    IF LessThan(config.vpcAzCount, Num(MinAz)) \/ GreaterThan(config.vpcAzCount, Num(MaxAz))
    THEN << <<"Invalid AZ count: ", config.vpcAzCount,
              ". Must be between 1 and 4">> >>
    ELSE <<>>

\* the errors array once the four checks have run
ValidationErrors(config) ==
    ServiceNameError(config) \o EnvironmentNameError(config)
        \o CidrBlockError(config) \o AzCountError(config)

validateConfig(config) ==
    LET errors == ValidationErrors(config)
        formattedErrors == [i \in 1..Len(errors) |-> <<"  - ">> \o errors[i]]
    IN  IF Len(errors) > 0
        THEN Threw([name |-> "Error",
                    message |-> <<"Configuration validation failed:">>,
                    lines |-> formattedErrors])
        ELSE Returned("void")

(***************************************************************************)
(* pulumi.Config accessors over the stack configuration.                   *)
(***************************************************************************)
\* a || b on text and on strings
OrText(t, d) == IF TruthyText(t) THEN t ELSE d
OrString(x, d) == IF TruthyString(x) THEN x ELSE d

ConfigMissingError(key) == [name |-> "ConfigMissingError", message |-> <<key>>, lines |-> <<>>]
ConfigTypeError(key) == [name |-> "ConfigTypeError", message |-> <<key>>, lines |-> <<>>]

\* config.getBoolean: undefined, true, false, or a thrown ConfigTypeError
IsBooleanText(x) == x \in {undefined, "true", "false"}

(***************************************************************************)
(* loadDeploymentConfig (config.ts:40-113).                                *)
(***************************************************************************)
DefaultRegion == "us-east-1"
DefaultCidrBlock == <<"1", "0", ".", "0", ".", "0", ".", "0", "/", "1", "6">>
DefaultAzCount == <<"2">>
DefaultCpu == <<"2", "5", "6">>
DefaultMemory == <<"5", "1", "2">>
\* the desired count deploy hard-codes, taken for the loader's default
DefaultDesiredCount_Two == <<"2">>
DefaultDesiredCount == <<"1">>
DefaultRetentionDays == <<"7">>

\* the object handed to validateConfig (config.ts:76-82)
ValidatedFields(s) ==
    [serviceName |-> s.serviceName,
     environmentName |-> s.environmentName,
     awsRegion |-> OrString(s.awsRegion, DefaultRegion),
     vpcCidrBlock |-> OrText(s.vpcCidrBlock, DefaultCidrBlock),
     vpcAzCount |-> parseInt(OrText(s.vpcAzCount, DefaultAzCount))]

\* the object returned (config.ts:84-112)
DeploymentConfig(s) ==
    [serviceName |-> s.serviceName,
     environmentName |-> s.environmentName,
     aws |-> [region |-> OrString(s.awsRegion, DefaultRegion)],
     vpc |-> [cidrBlock |-> OrText(s.vpcCidrBlock, DefaultCidrBlock),
              azCount |-> parseInt(OrText(s.vpcAzCount, DefaultAzCount))],
     ecs |-> [haproxy |->
                 [cpu |-> parseInt(OrText(s.haproxyCpu, DefaultCpu)),
                  memory |-> parseInt(OrText(s.haproxyMemory, DefaultMemory)),
                  desiredCount |-> parseInt(OrText(s.haproxyDesiredCount, DefaultDesiredCount)),
                  imageUri |-> s.haproxyImageUri],
              nginx |->
                 [cpu |-> parseInt(OrText(s.nginxCpu, DefaultCpu)),
                  memory |-> parseInt(OrText(s.nginxMemory, DefaultMemory)),
                  desiredCount |-> parseInt(OrText(s.nginxDesiredCount, DefaultDesiredCount)),
                  imageUri |-> s.nginxImageUri]],
     logging |-> [retentionDays |-> parseInt(OrText(s.logRetentionDays, DefaultRetentionDays)),
                  enableContainerInsights |->
                      IF s.enableContainerInsights = undefined THEN TRUE
                      ELSE s.enableContainerInsights = "true"]]

loadDeploymentConfig(s) ==
    IF s.serviceName = undefined THEN Threw(ConfigMissingError("serviceName"))
    ELSE IF s.environmentName = undefined THEN Threw(ConfigMissingError("environmentName"))
    ELSE IF ~IsBooleanText(s.enableContainerInsights)
         THEN Threw(ConfigTypeError("logging:enableContainerInsights"))
    ELSE LET v == validateConfig(ValidatedFields(s))
         IN  IF v.threw THEN v ELSE Returned(DeploymentConfig(s))

(***************************************************************************)
(* Resources.  new aws.x.Y(name, args) registers a resource under its      *)
(* logical name; its attributes are deferred values named after it.        *)
(***************************************************************************)
Resource(type, name, args) == [type |-> type, name |-> name, args |-> args]
IdOf(name) == name \o ".id"
ArnOf(name) == name \o ".arn"
NameOf(name) == name \o ".name"
RepositoryUrlOf(name) == name \o ".repositoryUrl"

(***************************************************************************)
(* createVpc (react-service.ts:120-311).                                   *)
(***************************************************************************)
DefaultVpcAzCount == 2
\* a private offset inside the range the public subnets can reach
PrivateSubnetOffset_Fifty == 100 \div 2
PrivateSubnetOffset == 100
AnyAddress == <<"0", ".", "0", ".", "0", ".", "0", "/", "0">>

\* azs.names[i]: the i-th zone the environment reports, undefined past the end
AvailabilityZoneName(zoneCount, i) ==
    IF i < zoneCount THEN "zone-" \o NumberToString(i) ELSE undefined

\* `10.0.${offset}.0/24`
SubnetCidrBlock(offset) ==
    <<"1", "0", ".", "0", ".">> \o NumberToChars(offset) \o <<".", "0", "/", "2", "4">>

PublicSubnet(i, zoneCount) ==
    Resource("aws:ec2:Subnet", "public-subnet-" \o NumberToString(i),
             [vpcId |-> IdOf("main-vpc"),
              cidrBlock |-> SubnetCidrBlock(i),
              availabilityZone |-> AvailabilityZoneName(zoneCount, i),
              mapPublicIpOnLaunch |-> TRUE,
              tags |-> [Name |-> "react-app-public-subnet-" \o NumberToString(i),
                        Type |-> "Public"]])

PrivateSubnet(i, zoneCount) ==
    Resource("aws:ec2:Subnet", "private-subnet-" \o NumberToString(i),
             [vpcId |-> IdOf("main-vpc"),
              cidrBlock |-> SubnetCidrBlock(PrivateSubnetOffset + i),
              availabilityZone |-> AvailabilityZoneName(zoneCount, i),
              mapPublicIpOnLaunch |-> FALSE,
              tags |-> [Name |-> "react-app-private-subnet-" \o NumberToString(i),
                        Type |-> "Private"]])

IngressRule(port, cidrBlocks, securityGroups) ==
    [protocol |-> "tcp", fromPort |-> port, toPort |-> port,
     cidrBlocks |-> cidrBlocks, securityGroups |-> securityGroups]

AllEgress ==
    << [protocol |-> "-1", fromPort |-> 0, toPort |-> 0,
        cidrBlocks |-> {AnyAddress}, securityGroups |-> {}] >>

PublicSecurityGroupIngress ==
    << IngressRule(80, {AnyAddress}, {}), IngressRule(443, {AnyAddress}, {}) >>

\* the private group opened to every address, like the public one
PrivateSecurityGroupIngress_OpenWorld(publicSecurityGroupId) ==
    << IngressRule(80, {AnyAddress}, {}), IngressRule(443, {AnyAddress}, {}) >>

PrivateSecurityGroupIngress(publicSecurityGroupId) ==
    << IngressRule(80, {}, {publicSecurityGroupId}),
       IngressRule(443, {}, {publicSecurityGroupId}) >>

PublicSecurityGroup ==
    Resource("aws:ec2:SecurityGroup", "public-sg",
             [vpcId |-> IdOf("main-vpc"),
              description |-> "Security group for public resources (HAProxy)",
              ingress |-> PublicSecurityGroupIngress,
              egress |-> AllEgress])

PrivateSecurityGroup ==
    Resource("aws:ec2:SecurityGroup", "private-sg",
             [vpcId |-> IdOf("main-vpc"),
              description |-> "Security group for private resources (Nginx)",
              ingress |-> PrivateSecurityGroupIngress(IdOf(PublicSecurityGroup.name)),
              egress |-> AllEgress])

\* every association made with the public route table
RouteTableAssociation_AlwaysPublic(prefix, subnets, i, routeTable) ==
    Resource("aws:ec2:RouteTableAssociation", prefix \o NumberToString(i),
             [subnetId |-> IdOf(subnets[i + 1].name), routeTableId |-> IdOf("public-rt")])
RouteTableAssociation(prefix, subnets, i, routeTable) ==
    Resource("aws:ec2:RouteTableAssociation", prefix \o NumberToString(i),
             [subnetId |-> IdOf(subnets[i + 1].name), routeTableId |-> IdOf(routeTable)])

\* the loop of lines 149-174 runs for i = 0 .. azCount-1
SubnetCount(azCount) == IF azCount > 0 THEN azCount ELSE 0

\* config.azCount || 2
EffectiveAzCount(config) ==
    IF TruthyNumber(config.azCount) THEN config.azCount.val ELSE DefaultVpcAzCount

\* the outcome of the call and the resources it registered, in order
createVpc(config, zoneCount) ==
    LET cidrBlock == OrText(config.cidrBlock, DefaultCidrBlock)
        azCount == EffectiveAzCount(config)
        n == SubnetCount(azCount)
        vpc == Resource("aws:ec2:Vpc", "main-vpc",
                        [cidrBlock |-> cidrBlock, enableDnsHostnames |-> TRUE,
                         enableDnsSupport |-> TRUE])
        internetGateway == Resource("aws:ec2:InternetGateway", "main-igw",
                                    [vpcId |-> IdOf("main-vpc")])
        publicSubnets == [k \in 1..n |-> PublicSubnet(k - 1, zoneCount)]
        privateSubnets == [k \in 1..n |-> PrivateSubnet(k - 1, zoneCount)]
        subnets == [k \in 1..(2 * n) |->
                       IF k % 2 = 1 THEN publicSubnets[(k + 1) \div 2]
                       ELSE privateSubnets[k \div 2]]
        eip == Resource("aws:ec2:Eip", "nat-eip", [domain |-> "vpc"])
        natGateway == Resource("aws:ec2:NatGateway", "main-nat",
                               [allocationId |-> IdOf("nat-eip"),
                                subnetId |-> IdOf(publicSubnets[1].name)])
        publicRouteTable ==
            Resource("aws:ec2:RouteTable", "public-rt",
                     [vpcId |-> IdOf("main-vpc"),
                      routes |-> << [cidrBlock |-> AnyAddress,
                                     gatewayId |-> IdOf("main-igw"),
                                     natGatewayId |-> undefined] >>])
        privateRouteTable ==
            Resource("aws:ec2:RouteTable", "private-rt",
                     [vpcId |-> IdOf("main-vpc"),
                      routes |-> << [cidrBlock |-> AnyAddress,
                                     gatewayId |-> undefined,
                                     natGatewayId |-> IdOf("main-nat")] >>])
        publicAssociations ==
            [k \in 1..n |-> RouteTableAssociation("public-rt-assoc-", publicSubnets,
                                                  k - 1, "public-rt")]
        privateAssociations ==
            [k \in 1..n |-> RouteTableAssociation("private-rt-assoc-", privateSubnets,
                                                  k - 1, "private-rt")]
    IN  IF n = 0
        THEN \* publicSubnets[0] is undefined: reading .id throws (line 187)
             [out |-> Threw([name |-> "TypeError",
                             message |-> <<"Cannot read properties of undefined (reading 'id')">>,
                             lines |-> <<>>]),
              registered |-> <<vpc, internetGateway>> \o subnets \o <<eip>>]
        ELSE [out |-> Returned([vpc |-> vpc,
                                publicSubnets |-> publicSubnets,
                                privateSubnets |-> privateSubnets,
                                publicSecurityGroup |-> PublicSecurityGroup,
                                privateSecurityGroup |-> PrivateSecurityGroup,
                                publicRouteTable |-> publicRouteTable,
                                privateRouteTable |-> privateRouteTable,
                                internetGateway |-> internetGateway,
                                eip |-> eip,
                                natGateway |-> natGateway]),
              registered |-> <<vpc, internetGateway>> \o subnets
                                \o <<eip, natGateway, publicRouteTable>>
                                \o publicAssociations \o <<privateRouteTable>>
                                \o privateAssociations
                                \o <<PublicSecurityGroup, PrivateSecurityGroup>>]

(***************************************************************************)
(* createEcrRepositories (ecr.ts:14-49).                                   *)
(***************************************************************************)
\* an optional boolean: omitted, true or false
Bool(b) == [kind |-> "bool", val |-> b]
undefinedBoolean == [kind |-> "undefined", val |-> FALSE]
\* x || false
OrFalse(x) == x.kind = "bool" /\ x.val

EcrRepoConfig(imageName, forceDelete) ==
    [defined |-> TRUE, imageName |-> imageName, forceDelete |-> forceDelete]
undefinedRepoConfig ==
    [defined |-> FALSE, imageName |-> undefined, forceDelete |-> undefinedBoolean]

\* config.haproxy || { imageName: "haproxy" }
OrRepoConfig(c, imageName) ==
    IF c.defined THEN c ELSE EcrRepoConfig(imageName, undefinedBoolean)

\* the repository named by its Name tag
Repository_NamedByTag(c) ==
    Resource("aws:ecr:Repository", "react-app-" \o c.imageName,
             [imageScanningConfiguration |-> [scanOnPush |-> TRUE],
              imageTagMutability |-> "MUTABLE",
              tags |-> [Name |-> "react-app-" \o c.imageName],
              forceDelete |-> OrFalse(c.forceDelete)])

\* lines 21-31 and 33-43: new aws.ecr.Repository(imageName, ...)
Repository(c) ==
    Resource("aws:ecr:Repository", c.imageName,
             [imageScanningConfiguration |-> [scanOnPush |-> TRUE],
              imageTagMutability |-> "MUTABLE",
              tags |-> [Name |-> "react-app-" \o c.imageName],
              forceDelete |-> OrFalse(c.forceDelete)])

createEcrRepositories(config) ==
    LET haproxyRepo == Repository(OrRepoConfig(config.haproxy, "haproxy"))
        nginxRepo == Repository(OrRepoConfig(config.nginx, "nginx"))
    IN  [out |-> Returned([haproxyRepo |-> haproxyRepo, nginxRepo |-> nginxRepo]),
         registered |-> <<haproxyRepo, nginxRepo>>]

(***************************************************************************)
(* createEcsCluster, createEcsClusterCapacityProviders                     *)
(* (react-service.ts:590-626).                                             *)
(***************************************************************************)
createEcsCluster(config) ==
    LET clusterName == OrString(config.name, "react-app-cluster")
    IN  Resource("aws:ecs:Cluster", clusterName,
                 [name |-> clusterName,
                  settings |-> << [name |-> "containerInsights", value |-> "enabled"] >>,
                  tags |-> [Name |-> clusterName]])

createEcsClusterCapacityProviders(cluster) ==
    Resource("aws:ecs:ClusterCapacityProviders", "capacity-providers",
             [clusterName |-> NameOf(cluster.name),
              capacityProviders |-> <<"FARGATE", "FARGATE_SPOT">>,
              defaultCapacityProviderStrategies |->
                  << [capacityProvider |-> "FARGATE", weight |-> 100, base |-> 1] >>])

(***************************************************************************)
(* createEcsService (react-service.ts:697-818).                            *)
(***************************************************************************)
LogRetentionInDays == 7
HealthCheckInterval == 30
HealthCheckTimeout == 10
HealthCheckRetries_Three == 6 \div 2
HealthCheckRetries == 5
HealthCheckStartPeriod == 120
PlainHttpPort == 80

createTaskRole(roleName) ==
    Resource("aws:iam:Role", roleName,
             [name |-> roleName, principal |-> "ecs-tasks.amazonaws.com"])

\* the execution role and the policy attachment it registers
createTaskExecutionRole(roleName) ==
    << Resource("aws:iam:Role", roleName,
                [name |-> roleName, principal |-> "ecs-tasks.amazonaws.com"]),
       Resource("aws:iam:RolePolicyAttachment", roleName \o "-policy",
                [role |-> roleName,
                 policyArn |-> "arn:aws:iam::aws:policy/service-role/AmazonECSTaskExecutionRolePolicy"]) >>

\* enableLogging !== false
LoggingEnabled(config) ==
    ~(config.enableLogging.kind = "bool" /\ config.enableLogging.val = FALSE)

\* the log group lines 706-713 create, unless one is handed in
NewLogGroup(config) ==
    Resource("aws:cloudwatch:LogGroup", "/ecs/" \o config.serviceName,
             [retentionInDays |-> LogRetentionInDays,
              tags |-> [Name |-> config.serviceName \o "-logs"]])

\* logGroupName: undefined when logging is off
LogGroupName(config) ==
    IF ~LoggingEnabled(config) THEN undefined
    ELSE IF config.cloudwatchLogGroup # undefined THEN NameOf(config.cloudwatchLogGroup)
    ELSE NameOf(NewLogGroup(config).name)

PortMapping(port) == [containerPort |-> port, hostPort |-> port, protocol |-> "tcp"]

\* lines 718-734: the primary port, then every additional port as listed
PortMappings(config) ==
    <<PortMapping(config.containerPort)>>
        \o [k \in 1..Len(config.additionalPorts) |-> PortMapping(config.additionalPorts[k])]

\* the probe always on the plain HTTP port
HealthCheckPort_AlwaysPlainHttp(config) == PlainHttpPort
\* lines 737-739
HealthCheckPort(config) ==
    IF \E k \in 1..Len(config.additionalPorts) : config.additionalPorts[k] = PlainHttpPort
    THEN PlainHttpPort
    ELSE config.containerPort

HealthCheck(config) ==
    [command |-> <<"CMD-SHELL",
                   "wget -qO- http://127.0.0.1:" \o NumberToString(HealthCheckPort(config))
                       \o "/health || exit 1">>,
     interval |-> HealthCheckInterval,
     timeout |-> HealthCheckTimeout,
     retries |-> HealthCheckRetries,
     startPeriod |-> HealthCheckStartPeriod]

\* a container that falls back to the default driver when no log group is there
LogConfiguration_FallbackDriver(config) ==
    [defined |-> TRUE,
     logDriver |-> IF TruthyString(LogGroupName(config)) THEN "awslogs" ELSE "json-file",
     group |-> LogGroupName(config), streamPrefix |-> "ecs"]
\* containerDef.logConfiguration, set only when a log group name is there
LogConfiguration(config) ==
    IF TruthyString(LogGroupName(config))
    THEN [defined |-> TRUE, logDriver |-> "awslogs",
          group |-> LogGroupName(config), streamPrefix |-> "ecs"]
    ELSE [defined |-> FALSE, logDriver |-> undefined,
          group |-> undefined, streamPrefix |-> undefined]

ContainerDefinition(config) ==
    [name |-> config.serviceName,
     image |-> config.imageUri,
     portMappings |-> PortMappings(config),
     essential |-> TRUE,
     healthCheck |-> HealthCheck(config),
     logConfiguration |-> LogConfiguration(config)]

TaskDefinition(config) ==
    Resource("aws:ecs:TaskDefinition", config.serviceName \o "-task",
             [family |-> config.serviceName,
              networkMode |-> "awsvpc",
              requiresCompatibilities |-> <<"FARGATE">>,
              cpu |-> NumberToString(config.containerCpu),
              memory |-> NumberToString(config.containerMemory),
              executionRoleArn |-> ArnOf(config.serviceName \o "-task-execution-role"),
              taskRoleArn |-> ArnOf(config.serviceName \o "-task-role"),
              containerDefinitions |-> <<ContainerDefinition(config)>>])

\* config.desiredCount || 1
EffectiveDesiredCount(config) ==
    IF TruthyNumber(config.desiredCount) THEN config.desiredCount.val ELSE 1

\* the service named after the image it runs
EcsService_NamedByImage(config) ==
    Resource("aws:ecs:Service", config.serviceName \o "-" \o config.imageUri,
             [name |-> config.serviceName,
              cluster |-> config.clusterArn,
              taskDefinition |-> ArnOf(config.serviceName \o "-task"),
              desiredCount |-> 1,
              launchType |-> "FARGATE",
              networkConfiguration |->
                  [subnets |-> config.subnets,
                   securityGroups |-> config.securityGroups,
                   assignPublicIp |-> OrFalse(config.assignPublicIp)],
              serviceRegistries |-> [defined |-> FALSE, registryArn |-> undefined]])

\* lines 792-815: new aws.ecs.Service(config.serviceName, serviceConfig)
EcsService(config) ==
    Resource("aws:ecs:Service", config.serviceName,
             [name |-> config.serviceName,
              cluster |-> config.clusterArn,
              taskDefinition |-> ArnOf(TaskDefinition(config).name),
              desiredCount |-> EffectiveDesiredCount(config),
              launchType |-> "FARGATE",
              networkConfiguration |->
                  [subnets |-> config.subnets,
                   securityGroups |-> config.securityGroups,
                   assignPublicIp |-> OrFalse(config.assignPublicIp)],
              serviceRegistries |->
                  IF TruthyString(config.serviceRegistryArn)
                  THEN [defined |-> TRUE, registryArn |-> config.serviceRegistryArn]
                  ELSE [defined |-> FALSE, registryArn |-> undefined]])

\* the service and the resources the call registered, in order
createEcsService(config) ==
    LET logGroup == IF LoggingEnabled(config) /\ config.cloudwatchLogGroup = undefined
                    THEN <<NewLogGroup(config)>> ELSE <<>>
    IN  [out |-> Returned(EcsService(config)),
         registered |-> <<createTaskRole(config.serviceName \o "-task-role")>>
                           \o createTaskExecutionRole(config.serviceName \o "-task-execution-role")
                           \o logGroup
                           \o <<TaskDefinition(config), EcsService(config)>>]

(***************************************************************************)
(* ReactService.deploy (react-service.ts:12-97).                           *)
(***************************************************************************)
DeployAzCount == 2
DeployDesiredCount == 2
DeployContainerPort == 80
DeployContainerMemory == 512
DeployContainerCpu == 256

\* lines 15-18
DeployVpcConfig == [cidrBlock |-> DefaultCidrBlock, azCount |-> Num(DeployAzCount)]

\* lines 21-24
DeployEcrConfig ==
    [haproxy |-> EcrRepoConfig("react-app-haproxy", undefinedBoolean),
     nginx |-> EcrRepoConfig("react-app-nginx", undefinedBoolean)]

\* subnets.map((s) => s.id)
SubnetIds(subnets) == [k \in 1..Len(subnets) |-> IdOf(subnets[k].name)]

\* the repository's :latest whatever image is configured
ImageUri_IgnoresOverride(configured, repo) ==
    RepositoryUrlOf(repo.name) \o ":latest"

\* lines 34-36 and 54-56: the configured image, or the repository's :latest
ImageUri(configured, repo) ==
    IF TruthyString(configured) THEN configured
    ELSE RepositoryUrlOf(repo.name) \o ":latest"

\* lines 38-51
HaproxyServiceConfig(pulumiConfig, vpcResources, ecrResources, ecsCluster) ==
    [clusterName |-> NameOf(ecsCluster.name),
     clusterArn |-> ArnOf(ecsCluster.name),
     serviceName |-> "haproxy-service",
     imageUri |-> ImageUri(pulumiConfig.haproxyImageUri, ecrResources.haproxyRepo),
     containerPort |-> DeployContainerPort,
     additionalPorts |-> <<>>,
     containerMemory |-> DeployContainerMemory,
     containerCpu |-> DeployContainerCpu,
     desiredCount |-> Num(DeployDesiredCount),
     subnets |-> SubnetIds(vpcResources.publicSubnets),
     securityGroups |-> <<IdOf(vpcResources.publicSecurityGroup.name)>>,
     assignPublicIp |-> Bool(TRUE),
     enableLogging |-> Bool(TRUE),
     cloudwatchLogGroup |-> undefined,
     serviceRegistryArn |-> undefined]

\* the HAProxy block copied for Nginx with only the name and image changed
NginxServiceConfig_CopiedFromHaproxy(pulumiConfig, vpcResources, ecrResources, ecsCluster) ==
    [HaproxyServiceConfig(pulumiConfig, vpcResources, ecrResources, ecsCluster)
        EXCEPT !.serviceName = "nginx-service",
               !.imageUri = ImageUri(pulumiConfig.nginxImageUri, ecrResources.nginxRepo)]

\* lines 58-71
NginxServiceConfig(pulumiConfig, vpcResources, ecrResources, ecsCluster) ==
    [clusterName |-> NameOf(ecsCluster.name),
     clusterArn |-> ArnOf(ecsCluster.name),
     serviceName |-> "nginx-service",
     imageUri |-> ImageUri(pulumiConfig.nginxImageUri, ecrResources.nginxRepo),
     containerPort |-> DeployContainerPort,
     additionalPorts |-> <<>>,
     containerMemory |-> DeployContainerMemory,
     containerCpu |-> DeployContainerCpu,
     desiredCount |-> Num(DeployDesiredCount),
     subnets |-> SubnetIds(vpcResources.privateSubnets),
     securityGroups |-> <<IdOf(vpcResources.privateSecurityGroup.name)>>,
     assignPublicIp |-> Bool(FALSE),
     enableLogging |-> Bool(TRUE),
     cloudwatchLogGroup |-> undefined,
     serviceRegistryArn |-> undefined]

\* the map returned without its last two entries
DeployOutputs_WithoutSubnetCounts(vpcResources, ecrResources, ecsCluster, haproxyService, nginxService) ==
    [vpcId |-> IdOf(vpcResources.vpc.name),
     clusterName |-> NameOf(ecsCluster.name),
     haproxyServiceName |-> NameOf(haproxyService.name),
     nginxServiceName |-> NameOf(nginxService.name),
     haproxyRepoUrl |-> RepositoryUrlOf(ecrResources.haproxyRepo.name),
     nginxRepoUrl |-> RepositoryUrlOf(ecrResources.nginxRepo.name),
     publicSecurityGroupId |-> IdOf(vpcResources.publicSecurityGroup.name),
     privateSecurityGroupId |-> IdOf(vpcResources.privateSecurityGroup.name)]

\* lines 84-95
DeployOutputs(vpcResources, ecrResources, ecsCluster, haproxyService, nginxService) ==
    [vpcId |-> IdOf(vpcResources.vpc.name),
     clusterName |-> NameOf(ecsCluster.name),
     haproxyServiceName |-> NameOf(haproxyService.name),
     nginxServiceName |-> NameOf(nginxService.name),
     haproxyRepoUrl |-> RepositoryUrlOf(ecrResources.haproxyRepo.name),
     nginxRepoUrl |-> RepositoryUrlOf(ecrResources.nginxRepo.name),
     publicSecurityGroupId |-> IdOf(vpcResources.publicSecurityGroup.name),
     privateSecurityGroupId |-> IdOf(vpcResources.privateSecurityGroup.name),
     publicSubnets |-> NumberToString(Len(vpcResources.publicSubnets)),
     privateSubnets |-> NumberToString(Len(vpcResources.privateSubnets))]

\* the outcome of deploy() and the resources it registered, in order
deploy(pulumiConfig, zoneCount) ==
    LET vpc == createVpc(DeployVpcConfig, zoneCount)
        ecr == createEcrRepositories(DeployEcrConfig)
        ecsCluster == createEcsCluster([name |-> "react-app-cluster"])
        capacity == createEcsClusterCapacityProviders(ecsCluster)
        haproxy == createEcsService(HaproxyServiceConfig(pulumiConfig, vpc.out.value,
                                                         ecr.out.value, ecsCluster))
        nginx == createEcsService(NginxServiceConfig(pulumiConfig, vpc.out.value,
                                                     ecr.out.value, ecsCluster))
    IN  IF vpc.out.threw
        THEN [out |-> vpc.out, registered |-> vpc.registered]
        ELSE [out |-> Returned(DeployOutputs(vpc.out.value, ecr.out.value, ecsCluster,
                                             haproxy.out.value, nginx.out.value)),
              registered |-> vpc.registered \o ecr.registered
                                \o <<ecsCluster, capacity>>
                                \o haproxy.registered \o nginx.registered]

(***************************************************************************)
(* createService (factory.ts, src/unnamed/part_006:5-17).                  *)
(***************************************************************************)
\* the methods every object literal inherits from Object.prototype
ObjectPrototypeMethods ==
    {"toString", "toLocaleString", "valueOf", "hasOwnProperty", "isPrototypeOf",
     "propertyIsEnumerable", "__defineGetter__", "__defineSetter__",
     "__lookupGetter__", "__lookupSetter__"}

\* a table that answers every name with the one registered constructor
registeredServices_AnyName(name) == "ReactService"
\* registeredServices[name]: the table's own entry, else what the object
\* literal inherits under that name, else undefined
registeredServices(name) ==
    IF name = "react-service" THEN "ReactService"
    ELSE IF name = "constructor" THEN "Object"
    ELSE IF name = "__proto__" THEN "Object.prototype"
    ELSE IF name \in ObjectPrototypeMethods THEN "Function"
    ELSE undefined

\* new serviceConstructor(config): a ReactService; for Object, the config
\* object itself; a TypeError for a value that is no constructor
Construct(serviceConstructor, config) ==
    IF serviceConstructor = "ReactService"
    THEN Returned([class |-> "ReactService", deploy |-> TRUE, pulumiConfig |-> config])
    ELSE IF serviceConstructor = "Object"
    THEN Returned([class |-> "Config", deploy |-> FALSE, pulumiConfig |-> config])
    ELSE Threw([name |-> "TypeError",
                message |-> <<"serviceConstructor is not a constructor">>,
                lines |-> <<>>])

createService(name, config) ==
    LET serviceConstructor == registeredServices(name)
    IN  IF serviceConstructor = undefined
        THEN Threw([name |-> "Error",
                    message |-> <<"No service registered for stack ", name>>,
                    lines |-> <<>>])
        ELSE Construct(serviceConstructor, config)

(***************************************************************************)
(* Deferred values.  An argument that holds an attribute of a resource     *)
(* makes the new resource wait for that resource: the engine registers it  *)
(* once every such input has resolved.                                     *)
(***************************************************************************)
\* the deferred values a resource offers: id, arn, name, repositoryUrl and
\* the interpolated `${repositoryUrl}:latest`
Attributes(name) ==
    {IdOf(name), ArnOf(name), NameOf(name), RepositoryUrlOf(name),
     RepositoryUrlOf(name) \o ":latest"}

\* what a service's arguments read (react-service.ts:792-813)
ServiceInputs_ClusterAndTaskOnly(r) == {r.args.cluster, r.args.taskDefinition}

ServiceInputs(r) ==
    {r.args.cluster, r.args.taskDefinition, r.args.serviceRegistries.registryArn}
        \cup {r.args.networkConfiguration.subnets[k] :
                 k \in DOMAIN r.args.networkConfiguration.subnets}
        \cup {r.args.networkConfiguration.securityGroups[k] :
                 k \in DOMAIN r.args.networkConfiguration.securityGroups}

\* a task definition that also reads the arn of the service that runs it
TaskDefinitionInputs_ReadsItsService(r) ==
    {r.args.executionRoleArn, r.args.taskRoleArn,
     r.args.containerDefinitions[1].image,
     r.args.containerDefinitions[1].logConfiguration.group,
     ArnOf(r.args.family)}
\* what a task definition's arguments read (react-service.ts:744-784)
TaskDefinitionInputs(r) ==
    {r.args.executionRoleArn, r.args.taskRoleArn,
     r.args.containerDefinitions[1].image,
     r.args.containerDefinitions[1].logConfiguration.group}

\* the values the arguments of a resource read
Inputs(r) ==
    CASE r.type \in {"aws:ec2:InternetGateway", "aws:ec2:Subnet"} -> {r.args.vpcId}
      [] r.type = "aws:ec2:NatGateway" -> {r.args.allocationId, r.args.subnetId}
      [] r.type = "aws:ec2:RouteTable" ->
            {r.args.vpcId}
                \cup {r.args.routes[k].gatewayId : k \in DOMAIN r.args.routes}
                \cup {r.args.routes[k].natGatewayId : k \in DOMAIN r.args.routes}
      [] r.type = "aws:ec2:RouteTableAssociation" ->
            {r.args.subnetId, r.args.routeTableId}
      [] r.type = "aws:ec2:SecurityGroup" ->
            {r.args.vpcId}
                \cup UNION {r.args.ingress[k].securityGroups : k \in DOMAIN r.args.ingress}
      [] r.type = "aws:ecs:ClusterCapacityProviders" -> {r.args.clusterName}
      [] r.type = "aws:iam:RolePolicyAttachment" -> {ArnOf(r.args.role)}
      [] r.type = "aws:ecs:TaskDefinition" -> TaskDefinitionInputs(r)
      [] r.type = "aws:ecs:Service" -> ServiceInputs(r)
      [] OTHER -> {}

\* the logical names of the resources, in program order
Names(resources) == [k \in 1..Len(resources) |-> resources[k].name]

\* the resources whose attributes r reads
DependsOn(r, resources) ==
    LET reads == Inputs(r)
    IN  {resources[k].name : k \in {j \in 1..Len(resources) :
                                      Attributes(resources[j].name) \cap reads # {}}}

Needs(resources) ==
    [n \in {resources[k].name : k \in 1..Len(resources)} |->
        DependsOn(resources[CHOOSE k \in 1..Len(resources) : resources[k].name = n],
                  resources)]

\* a resource is registered once one of the values it reads has resolved
Resolved_AnyInput(name, dependencies, done) ==
    dependencies[name] = {} \/ dependencies[name] \cap done # {}

\* a resource is registered once every value it reads has resolved
Resolved(name, dependencies, done) == dependencies[name] \subseteq done

\* the engine hands the head of the queue to the provider while a slot is free
RECURSIVE Dispatch(_, _, _)
Dispatch(waiting, running, slots) ==
    IF waiting = <<>> \/ Cardinality(running) >= slots
    THEN [queue |-> waiting, inflight |-> running]
    ELSE Dispatch(Tail(waiting), running \cup {Head(waiting)}, slots)

\* the resources a run may see rejected: the first one of every type
FaultCandidates(resources) ==
    {resources[k].name :
        k \in {j \in 1..Len(resources) :
                  \A i \in 1..(j - 1) : resources[i].type # resources[j].type}}

\* the sets of at most k resources the provider may reject
RECURSIVE FaultSets(_, _)
FaultSets(names, k) ==
    IF k = 0 THEN {{}}
    ELSE LET smaller == FaultSets(names, k - 1)
         IN  smaller \cup {s \cup {n} : s \in smaller, n \in names}

(***************************************************************************)
(* What a stack holds between runs.  The provider addresses a resource by  *)
(* its type and logical name: a run that declares a name the stack already *)
(* holds keeps that resource (updating it when its arguments changed), a   *)
(* name it has not seen is created, and a name no longer declared is       *)
(* deleted.  A task definition is immutable: changed arguments make a new  *)
(* revision, and whoever reads its arn is pointed at the new revision.     *)
(***************************************************************************)
Urn(r) == <<r.type, r.name>>

NoResources == [u \in {} |-> u]

Reconcile(old, resources, run) ==
    LET Declared(u) == resources[CHOOSE k \in DOMAIN resources : Urn(resources[k]) = u]
        Revision(u) ==
            IF u \notin DOMAIN old THEN 1
            ELSE IF old[u].args = Declared(u).args THEN old[u].revision
            ELSE old[u].revision + 1
        TaskDefinitionsRead(r) ==
            {resources[k].name :
                k \in {j \in DOMAIN resources :
                          /\ resources[j].type = "aws:ecs:TaskDefinition"
                          /\ ArnOf(resources[j].name) \in Inputs(r)}}
    IN  [u \in {Urn(resources[k]) : k \in DOMAIN resources} |->
            [args |-> Declared(u).args,
             bornIn |-> IF u \in DOMAIN old THEN old[u].bornIn ELSE run,
             revision |-> Revision(u),
             reads |-> {<<n, Revision(<<"aws:ecs:TaskDefinition", n>>)>> :
                          n \in TaskDefinitionsRead(Declared(u))}]]

(***************************************************************************)
(* The stack configurations the model runs the program on.                 *)
(***************************************************************************)
ServiceNameSettings == {undefined, "", "react-service", "web", "constructor"}
EnvironmentNameSettings == {undefined, "", "dev"}
CidrBlockSettings ==
    {undefinedText, DefaultCidrBlock,
     <<"b", "a", "d">>,
     <<"1", "7", "2", ".", "1", "6", ".", "0", ".", "0", "/", "1", "2">>,
     <<"1", "0", ".", "0", ".", "0", "/", "1", "6">>,
     <<"1", "0", ".", "0", ".", "0", ".", "0", "/", "1", "6", "0">>}
AzCountSettings ==
    {undefinedText, <<>>, <<"0">>, <<"1">>, <<"4">>, <<"5">>,
     <<"-", "1">>, <<"a", "b", "c">>, <<"3", "a">>, <<"0", "x", "3">>}

\* the settings no validation rule reads: none configured, or all configured
UnsetTierSettings ==
    [awsRegion |-> undefined,
     haproxyCpu |-> undefinedText, haproxyMemory |-> undefinedText,
     haproxyDesiredCount |-> undefinedText, haproxyImageUri |-> undefined,
     nginxCpu |-> undefinedText, nginxMemory |-> undefinedText,
     nginxDesiredCount |-> undefinedText, nginxImageUri |-> undefined,
     logRetentionDays |-> undefinedText, enableContainerInsights |-> undefined]
CustomTierSettings ==
    [awsRegion |-> "eu-west-1",
     haproxyCpu |-> <<"5", "1", "2">>, haproxyMemory |-> <<"1", "0", "2", "4">>,
     haproxyDesiredCount |-> <<"3">>,
     haproxyImageUri |-> "123456789.dkr.ecr.us-east-1.amazonaws.com/react-app-haproxy:v1.0.0",
     nginxCpu |-> <<"1", "0", "2", "4">>, nginxMemory |-> <<"2", "0", "4", "8">>,
     nginxDesiredCount |-> <<"5">>,
     nginxImageUri |-> "123456789.dkr.ecr.us-east-1.amazonaws.com/react-app-nginx:v1.0.0",
     logRetentionDays |-> <<"3", "0">>, enableContainerInsights |-> "false"]
\* only the front tier's image configured, the backend's set to nothing
HaproxyImageOnlySettings ==
    [UnsetTierSettings EXCEPT !.haproxyImageUri = CustomTierSettings.haproxyImageUri,
                              !.nginxImageUri = ""]
\* only the backend tier's image configured
NginxImageOnlySettings ==
    [UnsetTierSettings EXCEPT !.nginxImageUri = CustomTierSettings.nginxImageUri,
                              !.enableContainerInsights = "true"]
\* some configured: one tier's image only, an empty image, single numbers
TierSettings ==
    {UnsetTierSettings, CustomTierSettings,
     [UnsetTierSettings EXCEPT !.enableContainerInsights = "yes"],
     HaproxyImageOnlySettings,
     NginxImageOnlySettings,
     [UnsetTierSettings EXCEPT !.haproxyDesiredCount = <<"0">>,
                               !.nginxCpu = <<"1", "0", "2", "4">>,
                               !.logRetentionDays = <<"1", "4">>]}

\* f extended by the fields of g
Merge(f, g) ==
    [k \in DOMAIN f \cup DOMAIN g |-> IF k \in DOMAIN g THEN g[k] ELSE f[k]]

Stacks ==
    {Merge(t, [serviceName |-> sn, environmentName |-> en,
               vpcCidrBlock |-> cb, vpcAzCount |-> az]) :
        t \in TierSettings, sn \in ServiceNameSettings, en \in EnvironmentNameSettings,
        cb \in CidrBlockSettings, az \in AzCountSettings}

\* the stacks a sequence of deploys moves between: each tier's image is the
\* repository's, one release or the next
ImageReleases ==
    {undefined, "registry.example/react-app:v1.0.0", "registry.example/react-app:v1.1.0"}
RedeployStacks ==
    {Merge([UnsetTierSettings EXCEPT !.haproxyImageUri = h, !.nginxImageUri = n],
           [serviceName |-> "react-service", environmentName |-> "dev",
            vpcCidrBlock |-> undefinedText, vpcAzCount |-> undefinedText]) :
        h \in ImageReleases, n \in ImageReleases}
    \cup {Merge(UnsetTierSettings,
                [serviceName |-> "web", environmentName |-> "dev",
                 vpcCidrBlock |-> undefinedText, vpcAzCount |-> undefinedText])}

\* the stacks whose runs the model follows through the engine: one tier
\* with an image override, the other without
EngineStacks ==
    {Merge(t, [serviceName |-> "react-service", environmentName |-> "dev",
               vpcCidrBlock |-> undefinedText, vpcAzCount |-> undefinedText]) :
        t \in {NginxImageOnlySettings}}

\* no stack configuration read yet
NoStack == Merge(UnsetTierSettings,
                 [serviceName |-> undefined, environmentName |-> undefined,
                  vpcCidrBlock |-> undefinedText, vpcAzCount |-> undefinedText])

\* the arguments createVpc is called with
VpcCidrBlockInputs ==
    {undefinedText, <<>>, DefaultCidrBlock,
     <<"1", "0", ".", "0", ".", "0", ".", "0", "/", "8">>,
     <<"1", "0", ".", "0", ".", "0", ".", "0", "/", "2", "4">>,
     <<"1", "7", "2", ".", "1", "6", ".", "0", ".", "0", "/", "1", "2">>,
     <<"1", "9", "2", ".", "1", "6", "8", ".", "0", ".", "0", "/", "1", "6">>}
SmallAzCountInputs ==
    {undefinedNumber, NaN} \cup {Num(n) : n \in (0 - NegativeAzCounts)..SmallAzCount}
LargeAzCountInputs == {Num(n) : n \in (SmallAzCount + 1)..MaxAzCount}

\* every small azCount with every CIDR block and zone count; the large ones
\* with the default block where every zone is available
CreateVpcInputs ==
    {[config |-> [cidrBlock |-> cb, azCount |-> az], zones |-> z] :
        cb \in VpcCidrBlockInputs, az \in SmallAzCountInputs, z \in 1..MaxZones}
    \cup {[config |-> [cidrBlock |-> DefaultCidrBlock, azCount |-> az], zones |-> MaxZones] :
             az \in LargeAzCountInputs}

\* the kinds createService is called with
KindInputs ==
    {"react-service", "", "web", "React-Service", "constructor", "__proto__",
     "toString", "hasOwnProperty"}

\* the registry configurations createEcrRepositories is called with: each
\* entry omitted or given, with image names that differ or coincide
ImageNameInputs == {"haproxy", "nginx", "react-app-haproxy", "react-app-nginx"}
EcrRepoInputs ==
    {undefinedRepoConfig}
        \cup {EcrRepoConfig(n, f) : n \in ImageNameInputs, f \in {undefinedBoolean, Bool(TRUE)}}
EcrInputs == {[haproxy |-> h, nginx |-> n] : h \in EcrRepoInputs, n \in EcrRepoInputs}
\* the service specs createEcsService is called with
PortInputs == {80, 443, 8080, 8443}
AdditionalPortInputs ==
    UNION {[1..n -> {80, 443, 8080}] : n \in 0..MaxAdditionalPorts}

\* a spec with every optional field omitted
PlainServiceSpec ==
    [clusterName |-> NameOf("react-app-cluster"),
     clusterArn |-> ArnOf("react-app-cluster"),
     serviceName |-> "api-service",
     imageUri |-> "registry.example/api:v1",
     containerPort |-> 80,
     additionalPorts |-> <<>>,
     containerMemory |-> 512,
     containerCpu |-> 256,
     desiredCount |-> undefinedNumber,
     subnets |-> <<IdOf("private-subnet-0"), IdOf("private-subnet-1")>>,
     securityGroups |-> <<IdOf("private-sg")>>,
     assignPublicIp |-> undefinedBoolean,
     enableLogging |-> undefinedBoolean,
     cloudwatchLogGroup |-> undefined,
     serviceRegistryArn |-> undefined]

OptionalBooleans == {undefinedBoolean, Bool(TRUE), Bool(FALSE)}

\* every port layout with every logging choice; every binding of the service
EcsServiceInputs ==
    {[PlainServiceSpec EXCEPT !.containerPort = p, !.additionalPorts = a,
                              !.enableLogging = l, !.cloudwatchLogGroup = g] :
        p \in PortInputs, a \in AdditionalPortInputs,
        l \in OptionalBooleans, g \in {undefined, "shared-logs"}}
    \cup {[PlainServiceSpec EXCEPT !.desiredCount = d, !.assignPublicIp = ip,
                                   !.serviceRegistryArn = arn, !.subnets = sn] :
             d \in {undefinedNumber, Num(0), Num(1), Num(3)},
             ip \in OptionalBooleans,
             arn \in {undefined, "", ArnOf("nginx-discovery")},
             sn \in {<<IdOf("public-subnet-0")>>, PlainServiceSpec.subnets}}

NoCall == [fn |-> "none"]
NoService == [class |-> "none", deploy |-> FALSE, pulumiConfig |-> NoStack]

Init ==
    /\ pc = "idle"
    /\ call = NoCall
    /\ ret = NoReturn
    /\ stack = NoStack
    /\ zones = 0
    /\ registered = <<>>
    /\ service = NoService
    /\ needs = [n \in {} |-> {}]
    /\ faulty = {}
    /\ queue = <<>>
    /\ inflight = {}
    /\ created = {}
    /\ rejected = {}
    /\ cloud = NoResources
    /\ deploys = 0

\* a caller loads and validates the stack configuration
LoadDeploymentConfig ==
    /\ pc = "idle"
    /\ \E s \in Stacks :
          /\ stack' = s
          /\ call' = [fn |-> "loadDeploymentConfig"]
          /\ ret' = loadDeploymentConfig(s)
    /\ pc' = "done"
    /\ UNCHANGED <<zones, registered, service>>
    /\ UNCHANGED engineVars

\* a caller builds a topology
CreateVpc ==
    /\ pc = "idle"
    /\ \E in \in CreateVpcInputs :
          LET r == createVpc(in.config, in.zones)
          IN  /\ call' = [fn |-> "createVpc", config |-> in.config]
              /\ zones' = in.zones
              /\ ret' = r.out
              /\ registered' = r.registered
    /\ pc' = "done"
    /\ UNCHANGED <<stack, service>>
    /\ UNCHANGED engineVars

\* a caller asks the factory for a service of some kind
CreateService ==
    /\ pc = "idle"
    /\ \E name \in KindInputs :
          /\ call' = [fn |-> "createService", name |-> name]
          /\ ret' = createService(name, NoStack)
    /\ pc' = "done"
    /\ UNCHANGED <<stack, zones, registered, service>>
    /\ UNCHANGED engineVars

\* a caller creates one service from a spec
CreateEcsService ==
    /\ pc = "idle"
    /\ \E config \in EcsServiceInputs :
          LET r == createEcsService(config)
          IN  /\ call' = [fn |-> "createEcsService", config |-> config]
              /\ ret' = r.out
              /\ registered' = r.registered
    /\ pc' = "done"
    /\ UNCHANGED <<stack, zones, service>>
    /\ UNCHANGED engineVars

\* a caller provisions the registries
CreateEcrRepositories ==
    /\ pc = "idle"
    /\ \E config \in EcrInputs :
          LET r == createEcrRepositories(config)
          IN  /\ call' = [fn |-> "createEcrRepositories", config |-> config]
              /\ ret' = r.out
              /\ registered' = r.registered
    /\ pc' = "done"
    /\ UNCHANGED <<stack, zones, service>>
    /\ UNCHANGED engineVars

(***************************************************************************)
(* The program entry point (index.ts).                                     *)
(***************************************************************************)
\* lines 6-8: the module reads its two required settings as it loads
Require(stacks) ==
    /\ pc = "idle"
    /\ \E s \in stacks :
          /\ stack' = s
          /\ IF s.serviceName = undefined
             THEN ret' = Threw(ConfigMissingError("serviceName")) /\ pc' = "done"
             ELSE IF s.environmentName = undefined
             THEN ret' = Threw(ConfigMissingError("environmentName")) /\ pc' = "done"
             ELSE ret' = NoReturn /\ pc' = "loaded"
    /\ call' = [fn |-> "main"]
    /\ UNCHANGED <<zones, registered, service>>
    /\ UNCHANGED engineVars

EntryRequire == Require(Stacks)

\* lines 11-24: log, caller identity, auto-tags, then the factory
EntryCreateService ==
    /\ pc = "loaded"
    /\ LET r == createService(stack.serviceName, stack)
       IN  IF r.threw
           THEN ret' = r /\ pc' = "done" /\ UNCHANGED service
           ELSE service' = r.value /\ pc' = "created" /\ UNCHANGED ret
    /\ UNCHANGED <<call, stack, zones, registered>>
    /\ UNCHANGED engineVars

\* line 25: await service.deploy().  deploy() never awaits, so every
\* resource is constructed before the engine has created any; the ones that
\* read no deferred value are registered at once.
Deploy(zoneCounts, rejections) ==
    /\ pc = "created"
    /\ IF ~service.deploy
       THEN /\ ret' = Threw([name |-> "TypeError",
                             message |-> <<"service.deploy is not a function">>,
                             lines |-> <<>>])
            /\ pc' = "done"
            /\ UNCHANGED <<zones, registered>>
            /\ UNCHANGED engineVars
       ELSE \E z \in zoneCounts :
               LET d == deploy(service.pulumiConfig, z)
               IN  /\ zones' = z
                   /\ registered' = d.registered
                   /\ ret' = d.out
                   /\ pc' = IF ret'.threw THEN "done" ELSE "deployed"
                   /\ needs' = Needs(registered')
                   /\ LET Root(name) == Resolved(name, needs', {})
                          started == Dispatch(SelectSeq(Names(registered'), Root),
                                              {}, MaxParallel)
                      IN  queue' = started.queue /\ inflight' = started.inflight
                   /\ \E f \in FaultSets(FaultCandidates(registered'), rejections) : faulty' = f
                   /\ UNCHANGED <<created, rejected, cloud, deploys>>
    /\ UNCHANGED <<call, stack, service>>

\* the program alone: nothing is rejected
EntryDeploy == Deploy(1..MaxZones, 0)

\* lines 27-36: log every output, return the exports
EntryReturn ==
    /\ pc = "deployed"
    /\ pc' = "done"
    /\ UNCHANGED <<call, ret, stack, zones, registered, service>>
    /\ UNCHANGED engineVars

Next ==
    \/ LoadDeploymentConfig
    \/ CreateVpc
    \/ CreateService
    \/ CreateEcsService
    \/ CreateEcrRepositories
    \/ EntryRequire
    \/ EntryCreateService
    \/ EntryDeploy
    \/ EntryReturn

Spec == Init /\ [][Next]_vars

(***************************************************************************)
(* The engine.  It runs up to MaxParallel resource operations at a time,   *)
(* takes registrations in the order they arrive, and hands each to the     *)
(* provider, which creates the resource or rejects it, in any order among  *)
(* the running operations.  The values of a created resource resolve;      *)
(* those of a rejected one never do.                                       *)
(***************************************************************************)
programVars == <<pc, call, ret, stack, zones, registered, service>>

EngineRunning == call.fn = "main" /\ pc \in {"deployed", "done"}

\* the resource exists: whoever was waiting for it alone is registered now,
\* and the freed slot takes the next registration
ProviderCreate ==
    /\ EngineRunning
    /\ \E n \in inflight \ faulty :
          LET done == created \cup {n}
              Unblocked(m) == n \in needs[m] /\ Resolved(m, needs, done)
              next == Dispatch(queue \o SelectSeq(Names(registered), Unblocked),
                               inflight \ {n}, MaxParallel)
          IN  /\ created' = done
              /\ inflight' = next.inflight
              /\ queue' = next.queue
    /\ UNCHANGED <<needs, faulty, rejected, cloud, deploys>>
    /\ UNCHANGED programVars

\* the provider refuses: nothing is undone, nothing new is registered, and
\* the freed slot takes the next registration
ProviderReject ==
    /\ EngineRunning
    /\ \E n \in inflight \cap faulty :
          LET next == Dispatch(queue, inflight \ {n}, MaxParallel)
          IN  /\ rejected' = rejected \cup {n}
              /\ inflight' = next.inflight
              /\ queue' = next.queue
    /\ UNCHANGED <<needs, faulty, created, cloud, deploys>>
    /\ UNCHANGED programVars

EngineRequire == Require(EngineStacks)
EngineDeploy == Deploy({MaxZones}, MaxRejections)

EngineNext ==
    \/ EngineRequire
    \/ EntryCreateService
    \/ EngineDeploy
    \/ EntryReturn
    \/ ProviderCreate
    \/ ProviderReject

EngineSpec == Init /\ [][EngineNext]_vars

(***************************************************************************)
(* A run the provider accepts in full: it rejects nothing and completes    *)
(* every creation it was handed.                                           *)
(***************************************************************************)
AcceptingDeploy == Deploy({MaxZones}, 0)

AcceptingNext ==
    \/ EngineRequire
    \/ EntryCreateService
    \/ AcceptingDeploy
    \/ EntryReturn
    \/ ProviderCreate

AcceptingSpec == Init /\ [][AcceptingNext]_vars /\ WF_vars(ProviderCreate)

(***************************************************************************)
(* Deploy after deploy of one stack.  A run of the program (index.ts) that *)
(* the provider accepts in full leaves the stack holding what the program  *)
(* declared; a run that throws leaves the stack as it was.                 *)
(***************************************************************************)
Up ==
    /\ deploys < MaxDeploys
    /\ \E s \in RedeployStacks :
          LET made == createService(s.serviceName, s)
              d == deploy(made.value.pulumiConfig, MaxZones)
          IN  /\ stack' = s
              /\ call' = [fn |-> "main"]
              /\ pc' = "done"
              /\ IF made.threw
                 THEN /\ ret' = made
                      /\ registered' = <<>>
                      /\ cloud' = cloud
                      /\ UNCHANGED <<service, zones>>
                 ELSE /\ service' = made.value
                      /\ zones' = MaxZones
                      /\ ret' = d.out
                      /\ registered' = d.registered
                      /\ cloud' = IF d.out.threw THEN cloud
                                  ELSE Reconcile(cloud, d.registered, deploys + 1)
    /\ deploys' = deploys + 1
    /\ UNCHANGED <<needs, faulty, queue, inflight, created, rejected>>

RedeployNext == Up

RedeploySpec == Init /\ [][RedeployNext]_vars

(***************************************************************************)
(* Reading the model's state.                                              *)
(***************************************************************************)
\* the registered resources of one type
OfType(type) == {k \in 1..Len(registered) : registered[k].type = type}

Subnets == {registered[k] : k \in OfType("aws:ec2:Subnet")}
SecurityGroups == {registered[k] : k \in OfType("aws:ec2:SecurityGroup")}
Associations == {registered[k] : k \in OfType("aws:ec2:RouteTableAssociation")}
Services == {registered[k] : k \in OfType("aws:ecs:Service")}

\* the subnets associated with a route table
SubnetIdsRoutedBy(routeTable) ==
    {a.args.subnetId : a \in {x \in Associations : x.args.routeTableId = IdOf(routeTable)}}

CreateVpcReturned == pc = "done" /\ call.fn = "createVpc" /\ ~ret.threw
LoadConfigDone == pc = "done" /\ call.fn = "loadDeploymentConfig"
CreateServiceDone == pc = "done" /\ call.fn = "createService"
MainDone == pc = "done" /\ call.fn = "main"

\* the azCount createVpc was asked for, when it is an integer
RequestedAzCount == call.config.azCount.val

(***************************************************************************)
(* IPv4 CIDR blocks as address ranges.                                     *)
(***************************************************************************)
RECURSIVE GroupStart(_, _)
\* where the k-th digit group of d.d.d.d/d starts
GroupStart(t, k) ==
    IF k = 1 THEN 1
    ELSE LET p == GroupStart(t, k - 1) IN p + DigitRun(t, p) + 1

GroupValue(t, k) == LET p == GroupStart(t, k) IN DecimalValue(t, p, DigitRun(t, p))

IsCidr(t) ==
    /\ CidrPatternTest(t)
    /\ \A k \in 1..4 : GroupValue(t, k) <= 255
    /\ GroupValue(t, 5) <= 32

RECURSIVE Pow2(_)
Pow2(n) == IF n = 0 THEN 1 ELSE 2 * Pow2(n - 1)

\* the first and last address of a block
CidrRange(t) ==
    LET addr == ((GroupValue(t, 1) * 256 + GroupValue(t, 2)) * 256
                    + GroupValue(t, 3)) * 256 + GroupValue(t, 4)
        size == Pow2(32 - GroupValue(t, 5))
        first == addr - (addr % size)
    IN  [first |-> first, last |-> first + size - 1]

Contains(outer, inner) == outer.first <= inner.first /\ inner.last <= outer.last
Overlap(a, b) == a.first <= b.last /\ b.first <= a.last

(***************************************************************************)
(* C1.  Every ingress rule of the private security group names the public  *)
(* security group's identifier as its only source and carries no address   *)
(* range; a built topology has such a group, and it has ingress rules.     *)
(***************************************************************************)
PrivateGroups == {g \in SecurityGroups : g.name = "private-sg"}

C1_PrivateIngressFromPublicGroupOnly ==
    /\ \A g \in PrivateGroups :
          /\ Len(g.args.ingress) > 0
          /\ \A k \in 1..Len(g.args.ingress) :
                /\ g.args.ingress[k].securityGroups = {IdOf("public-sg")}
                /\ g.args.ingress[k].cidrBlocks = {}
    /\ CreateVpcReturned => PrivateGroups # {}

C1_Witness ==
    /\ CreateVpcReturned
    /\ call.config.azCount = Num(3)
    /\ call.config.cidrBlock # DefaultCidrBlock
    /\ TruthyText(call.config.cidrBlock)
    /\ PrivateGroups # {}

(***************************************************************************)
(* C2.  The HAProxy service runs only in subnets routed by the public      *)
(* route table, in the public security group, with a public IP; the Nginx  *)
(* service runs only in subnets routed by the private route table, in the  *)
(* private security group, without a public IP.                            *)
(***************************************************************************)
Range(f) == {f[k] : k \in DOMAIN f}

TierBound(svc, routeTable, group, publicIp) ==
    LET net == svc.args.networkConfiguration
    IN  /\ Range(net.subnets) # {}
        /\ Range(net.subnets) \subseteq SubnetIdsRoutedBy(routeTable)
        /\ Range(net.securityGroups) = {IdOf(group)}
        /\ net.assignPublicIp = publicIp

C2_TiersBoundToTheirNetworks ==
    /\ \A svc \in Services :
          /\ svc.name = "haproxy-service" => TierBound(svc, "public-rt", "public-sg", TRUE)
          /\ svc.name = "nginx-service" =>
                /\ TierBound(svc, "private-rt", "private-sg", FALSE)
                /\ Range(svc.args.networkConfiguration.subnets)
                       \cap SubnetIdsRoutedBy("public-rt") = {}
    /\ (MainDone /\ ~ret.threw) =>
          {svc.name : svc \in Services} = {"haproxy-service", "nginx-service"}

C2_Witness ==
    /\ MainDone
    /\ ~ret.threw
    /\ \E svc \in Services : svc.name = "nginx-service"
    /\ \E svc \in Services : svc.name = "haproxy-service"

(***************************************************************************)
(* The validation rules as the documentation states them.                  *)
(***************************************************************************)
\* the value validation sees for a setting: the default when it is not set
EffectiveCidrBlock(s) == OrText(s.vpcCidrBlock, DefaultCidrBlock)
EffectiveAzCountText(s) == OrText(s.vpcAzCount, DefaultAzCount)

\* the setting parses to a whole number between 1 and 4
AzCountInRange(s) ==
    LET n == parseInt(EffectiveAzCountText(s))
    IN  IsNumber(n) /\ n.val >= 1 /\ n.val <= 4

ViolatedRules(s) ==
    {r \in {"serviceName", "environmentName", "vpcCidrBlock", "azCount"} :
        \/ r = "serviceName" /\ s.serviceName = ""
        \/ r = "environmentName" /\ s.environmentName = ""
        \/ r = "vpcCidrBlock" /\ ~CidrPatternTest(EffectiveCidrBlock(s))
        \/ r = "azCount" /\ ~AzCountInRange(s)}

\* the rule an error line reports
RuleOfLine(line) ==
    IF line[2] = "serviceName is required" THEN "serviceName"
    ELSE IF line[2] = "environmentName is required" THEN "environmentName"
    ELSE IF line[2] = "Invalid CIDR block: " THEN "vpcCidrBlock"
    ELSE "azCount"

\* validateConfig ran: both required settings are there and the flag parses
ValidationRan ==
    /\ LoadConfigDone
    /\ stack.serviceName # undefined
    /\ stack.environmentName # undefined
    /\ IsBooleanText(stack.enableContainerInsights)

(***************************************************************************)
(* C3.  The error validateConfig throws lists exactly one message per      *)
(* violated rule, and a configuration that violates no rule throws         *)
(* nothing.                                                                *)
(***************************************************************************)
C3_OneMessagePerViolatedRule ==
    ValidationRan =>
        IF ViolatedRules(stack) = {}
        THEN ~ret.threw
        ELSE /\ ret.threw
             /\ Len(ret.error.lines) = Cardinality(ViolatedRules(stack))
             /\ {RuleOfLine(ret.error.lines[k]) : k \in 1..Len(ret.error.lines)}
                    = ViolatedRules(stack)

(***************************************************************************)
(* C4.  When the stack configuration is invalid, the entry point fails     *)
(* and no resource has been registered.                                    *)
(***************************************************************************)
InvalidStack(s) ==
    \/ s.serviceName \in {undefined, ""}
    \/ s.environmentName \in {undefined, ""}
    \/ ~CidrPatternTest(EffectiveCidrBlock(s))
    \/ ~AzCountInRange(s)

C4_InvalidConfigFailsBeforeCreation ==
    (MainDone /\ InvalidStack(stack)) => (ret.threw /\ registered = <<>>)

(***************************************************************************)
(* C5.  loadDeploymentConfig either throws or returns a configuration      *)
(* whose vpc.azCount is an integer between 1 and 4.                        *)
(***************************************************************************)
C5_AzCountIsIntegerInRange ==
    LoadConfigDone =>
        \/ ret.threw
        \/ /\ IsNumber(ret.value.vpc.azCount)
           /\ ret.value.vpc.azCount.val \in 1..4

(***************************************************************************)
(* C6.  createService throws for every kind that is not in the             *)
(* registration table and returns an instance with deploy() for a kind     *)
(* that is.                                                                *)
(***************************************************************************)
RegistrationTable == {"react-service"}

C6_UnregisteredKindFails ==
    CreateServiceDone =>
        IF call.name \in RegistrationTable
        THEN ~ret.threw /\ ret.value.deploy
        ELSE ret.threw

(***************************************************************************)
(* C7.  For azCount in 1..4 the topology has azCount public and azCount    *)
(* private subnets, and the i-th public and the i-th private subnet are    *)
(* both placed in the i-th availability zone.                              *)
(***************************************************************************)
AzCountIn(lo, hi) ==
    /\ pc = "done"
    /\ call.fn = "createVpc"
    /\ IsNumber(call.config.azCount)
    /\ RequestedAzCount \in lo..hi

C7_SubnetPairPerZone ==
    AzCountIn(1, 4) =>
        /\ ~ret.threw
        /\ Len(ret.value.publicSubnets) = RequestedAzCount
        /\ Len(ret.value.privateSubnets) = RequestedAzCount
        /\ \A k \in 1..RequestedAzCount :
              /\ ret.value.publicSubnets[k].args.availabilityZone # undefined
              /\ ret.value.publicSubnets[k].args.availabilityZone
                     = ret.value.privateSubnets[k].args.availabilityZone
              /\ \A j \in 1..RequestedAzCount :
                    j # k => ret.value.publicSubnets[j].args.availabilityZone
                                 # ret.value.publicSubnets[k].args.availabilityZone

(***************************************************************************)
(* C8.  For a valid vpcCidrBlock and azCount in 1..4, every subnet's CIDR  *)
(* block lies inside the virtual network's CIDR block.                     *)
(***************************************************************************)
VpcCidrBlock == ret.value.vpc.args.cidrBlock

C8_SubnetsInsideVpcBlock ==
    (AzCountIn(1, 4) /\ ~ret.threw /\ IsCidr(VpcCidrBlock)) =>
        \A sn \in Subnets :
            /\ IsCidr(sn.args.cidrBlock)
            /\ Contains(CidrRange(VpcCidrBlock), CidrRange(sn.args.cidrBlock))

(***************************************************************************)
(* C9.  For azCount up to 100, public subnet i has offset i, private       *)
(* subnet j has offset 100+j, and no two subnet CIDR blocks overlap.       *)
(***************************************************************************)
\* the address ranges of a set of subnets
Ranges(subnets) == {CidrRange(sn.args.cidrBlock) : sn \in subnets}
Disjoint(ranges) == \A a \in ranges : \A b \in ranges : a # b => ~Overlap(a, b)

C9_SubnetBlocksDisjoint ==
    (AzCountIn(1, 100) /\ ~ret.threw) =>
        LET n == RequestedAzCount
            ranges == Ranges(Subnets)
        IN  /\ Len(ret.value.publicSubnets) = n
            /\ Len(ret.value.privateSubnets) = n
            /\ \A k \in 1..n :
                  /\ GroupValue(ret.value.publicSubnets[k].args.cidrBlock, 3) = k - 1
                  /\ GroupValue(ret.value.privateSubnets[k].args.cidrBlock, 3) = 100 + k - 1
            /\ \A sn \in Subnets : IsCidr(sn.args.cidrBlock)
            /\ Cardinality(ranges) = 2 * n
            /\ Disjoint(ranges)

C9_Witness ==
    /\ AzCountIn(100, 100)
    /\ ~ret.threw
    /\ Len(ret.value.publicSubnets) = 100
    /\ Len(ret.value.privateSubnets) = 100

(***************************************************************************)
(* C10.  When azCount exceeds the number of availability zones the         *)
(* environment reports, the topology builder throws before it registers a  *)
(* subnet; no subnet is ever registered with an undefined zone.            *)
(***************************************************************************)
C10_CapacityErrorBeforeSubnets ==
    /\ (AzCountIn(1, MaxAzCount) /\ RequestedAzCount > zones) =>
          (ret.threw /\ Subnets = {})
    /\ \A sn \in Subnets : sn.args.availabilityZone # undefined

(***************************************************************************)
(* Reading the services createEcsService builds.                           *)
(***************************************************************************)
TaskDefinitions == {registered[k] : k \in OfType("aws:ecs:TaskDefinition")}
CreateEcsServiceDone == pc = "done" /\ call.fn = "createEcsService"

\* the container a task definition describes
ContainerOf(td) == td.args.containerDefinitions[1]
\* the ports the container exposes
PortSet(td) ==
    {ContainerOf(td).portMappings[k].containerPort :
        k \in 1..Len(ContainerOf(td).portMappings)}
\* the probe command that targets a port
ProbeCommand(port) ==
    <<"CMD-SHELL",
      "wget -qO- http://127.0.0.1:" \o NumberToString(port) \o "/health || exit 1">>

\* the ports that conventionally carry TLS; every other port is plaintext
EncryptedPorts == {443, 8443}
Minimum(S) == CHOOSE x \in S : \A y \in S : x <= y

(***************************************************************************)
(* C11.  The liveness probe of every task definition targets the lowest    *)
(* plaintext port of the service's port set whenever the set has one, and  *)
(* the primary port otherwise; with primary port 8443 and additional port  *)
(* 8080 it targets 8080.                                                   *)
(***************************************************************************)
C11_ProbePrefersLowestPlaintextPort ==
    CreateEcsServiceDone =>
        \A td \in TaskDefinitions :
            LET plaintext == PortSet(td) \ EncryptedPorts
                target == IF plaintext # {} THEN Minimum(plaintext)
                          ELSE call.config.containerPort
            IN  ContainerOf(td).healthCheck.command = ProbeCommand(target)

(***************************************************************************)
(* Reading what one run of the entry point built.                          *)
(***************************************************************************)
\* deploy() has returned its outputs to the entry point
MainDeployed == call.fn = "main" /\ pc \in {"deployed", "done"} /\ ~ret.threw

Repositories == {registered[k] : k \in OfType("aws:ecr:Repository")}

\* the image of the tier's only task definition
TierImages(serviceName) ==
    {ContainerOf(td).image : td \in {x \in TaskDefinitions : x.name = serviceName \o "-task"}}

\* an image override is configured: the setting is there and names an image
OverrideConfigured(setting) == setting # undefined /\ setting # ""

ResolvedAs(serviceName, setting, repositoryName) ==
    IF OverrideConfigured(setting)
    THEN TierImages(serviceName) = {setting}
    ELSE /\ TierImages(serviceName) = {RepositoryUrlOf(repositoryName) \o ":latest"}
         /\ \E repo \in Repositories : repo.name = repositoryName

DiscoveryNamespace == "react-app.local"
OutputValues == {ret.value[k] : k \in DOMAIN ret.value}

C13_OutputsHaveEveryStableKey ==
    MainDeployed =>
        /\ {"vpcId", "clusterName", "haproxyServiceName", "nginxServiceName",
            "haproxyRepoUrl", "nginxRepoUrl", "publicSecurityGroupId",
            "privateSecurityGroupId", "publicSubnets", "privateSubnets"}
               \subseteq DOMAIN ret.value
        /\ IdOf("react-app-namespace") \in OutputValues
        /\ "nginxServiceDiscoveryDns" \in DOMAIN ret.value
        /\ \E backend \in {"nginx", "nginx-service"} :
               backend \o "." \o DiscoveryNamespace \in OutputValues

(***************************************************************************)
(* C14.  When the configured azCount is in 1..4, deploy builds that many   *)
(* public and that many private subnets and reports that number in its     *)
(* publicSubnets and privateSubnets outputs.                               *)
(***************************************************************************)
ConfiguredAzCount == parseInt(EffectiveAzCountText(stack)).val
SubnetsOfKind(kind) == {sn \in Subnets : sn.args.tags.Type = kind}

C14_SubnetCountsFollowAzCount ==
    (MainDeployed /\ AzCountInRange(stack)) =>
        /\ Cardinality(SubnetsOfKind("Public")) = ConfiguredAzCount
        /\ Cardinality(SubnetsOfKind("Private")) = ConfiguredAzCount
        /\ ret.value.publicSubnets = NumberToString(ConfiguredAzCount)
        /\ ret.value.privateSubnets = NumberToString(ConfiguredAzCount)

(***************************************************************************)
(* C18.  In the configuration loadDeploymentConfig returns, a setting that *)
(* is not configured has its documented default (10.0.0.0/16, azCount 2,   *)
(* cpu 256, memory 512, desiredCount 1, retention 7, insights on) and a    *)
(* setting configured with a valid value has exactly that value.           *)
(***************************************************************************)
\* a number setting is valid when it is written as decimal digits
DigitsOnly(t) == t # undefinedText /\ Len(t) > 0 /\ \A i \in 1..Len(t) : IsDigit(t[i])

\* what the documentation promises for a number setting
NumberSettingKept(setting, documentedDefault, loaded) ==
    /\ setting = undefinedText => loaded = Num(documentedDefault)
    /\ DigitsOnly(setting) => loaded = Num(DecimalValue(setting, 1, Len(setting)))

TierSettingsKept(cpu, memory, desiredCount, loaded) ==
    /\ NumberSettingKept(cpu, 256, loaded.cpu)
    /\ NumberSettingKept(memory, 512, loaded.memory)
    /\ NumberSettingKept(desiredCount, 1, loaded.desiredCount)

C18_DefaultsAndConfiguredValues ==
    (LoadConfigDone /\ ~ret.threw) =>
        /\ stack.vpcCidrBlock = undefinedText =>
               ret.value.vpc.cidrBlock = <<"1", "0", ".", "0", ".", "0", ".", "0", "/", "1", "6">>
        /\ TruthyText(stack.vpcCidrBlock) => ret.value.vpc.cidrBlock = stack.vpcCidrBlock
        /\ NumberSettingKept(stack.vpcAzCount, 2, ret.value.vpc.azCount)
        /\ TierSettingsKept(stack.haproxyCpu, stack.haproxyMemory,
                            stack.haproxyDesiredCount, ret.value.ecs.haproxy)
        /\ TierSettingsKept(stack.nginxCpu, stack.nginxMemory,
                            stack.nginxDesiredCount, ret.value.ecs.nginx)
        /\ NumberSettingKept(stack.logRetentionDays, 7, ret.value.logging.retentionDays)
        /\ ret.value.logging.enableContainerInsights
               = (stack.enableContainerInsights # "false")

C18_Witness ==
    /\ LoadConfigDone
    /\ ~ret.threw
    /\ stack.haproxyDesiredCount = <<"0">>
    /\ ret.value.ecs.haproxy.desiredCount = Num(0)
    /\ stack.nginxDesiredCount = undefinedText
    /\ ret.value.ecs.nginx.desiredCount = Num(1)
    /\ stack.vpcAzCount = <<"4">>
    /\ ret.value.vpc.azCount = Num(4)

(***************************************************************************)
(* C17.  A run of the entry point ends either with the complete output map *)
(* (every key deploy exports, each bound to a value) or with one error and *)
(* no map at all.                                                          *)
(***************************************************************************)
ExportedKeys ==
    {"vpcId", "clusterName", "haproxyServiceName", "nginxServiceName",
     "haproxyRepoUrl", "nginxRepoUrl", "publicSecurityGroupId",
     "privateSecurityGroupId", "publicSubnets", "privateSubnets"}

CompleteMap(m) == DOMAIN m = ExportedKeys /\ \A k \in DOMAIN m : TruthyString(m[k])

Settled == EngineRunning /\ queue = <<>> /\ inflight = {}

\* the registered resources a service's arguments name
SubnetNamesOf(svc) ==
    {sn.name : sn \in {x \in Subnets :
                          IdOf(x.name) \in Range(svc.args.networkConfiguration.subnets)}}
GroupNamesOf(svc) ==
    {g.name : g \in {x \in SecurityGroups :
                        IdOf(x.name) \in Range(svc.args.networkConfiguration.securityGroups)}}
ClusterNames == {registered[k].name : k \in OfType("aws:ecs:Cluster")}
TaskNameOf(svc) == svc.name \o "-task"

\* the tier's image setting and the tier's repository
OverrideOf(svc) ==
    IF svc.name = "haproxy-service" THEN stack.haproxyImageUri ELSE stack.nginxImageUri
RepositoryOf(svc) ==
    IF svc.name = "haproxy-service" THEN "react-app-haproxy" ELSE "react-app-nginx"

\* the tier's repository exists whenever the tier has no image override
RegistryReady(svc) == OverrideConfigured(OverrideOf(svc)) \/ RepositoryOf(svc) \in created

(***************************************************************************)
(* C19 as claimed.  Neither a tier's task definition nor its service       *)
(* exists before the subnets and the security group of the tier, the       *)
(* cluster and, without an image override, the tier's repository exist.    *)
(***************************************************************************)
C19_TaskAndServiceAfterNetworkClusterRegistry ==
    \A svc \in Services :
        (TaskNameOf(svc) \in created \/ svc.name \in created) =>
            /\ SubnetNamesOf(svc) \subseteq created
            /\ GroupNamesOf(svc) \subseteq created
            /\ ClusterNames \subseteq created
            /\ RegistryReady(svc)

(***************************************************************************)
(* C19 amended.  A tier's service exists only after the subnets and the    *)
(* security group it names, the cluster and its task definition exist; a   *)
(* tier's task definition exists only after the tier's repository exists,  *)
(* unless an image override is configured.  (A task definition names       *)
(* neither the cluster nor the network and does not wait for them.)        *)
(***************************************************************************)
C19_EachAfterWhatItReads ==
    \A svc \in Services :
        /\ svc.name \in created =>
              /\ SubnetNamesOf(svc) # {}
              /\ SubnetNamesOf(svc) \subseteq created
              /\ GroupNamesOf(svc) # {}
              /\ GroupNamesOf(svc) \subseteq created
              /\ ClusterNames # {}
              /\ ClusterNames \subseteq created
              /\ TaskNameOf(svc) \in created
        /\ TaskNameOf(svc) \in created => RegistryReady(svc)

C19_Witness ==
    /\ Settled
    /\ rejected = {}
    /\ {"haproxy-service", "nginx-service", "haproxy-service-task",
        "react-app-haproxy", "react-app-cluster"} \subseteq created
    /\ ~OverrideConfigured(stack.haproxyImageUri)
    /\ OverrideConfigured(stack.nginxImageUri)

(***************************************************************************)
(* C20.  Once the provider has rejected a resource, nothing that reads it, *)
(* directly or through other resources, is ever created; every resource    *)
(* that does not is created all the same; and nothing that was created or  *)
(* rejected is taken back.                                                 *)
(***************************************************************************)
\* S and everything that reads a resource of S, directly or not
RECURSIVE Dependents(_)
Dependents(S) ==
    LET T == S \cup {m \in DOMAIN needs : needs[m] \cap S # {}}
    IN  IF T = S THEN S ELSE Dependents(T)

NoDependentOfRejectedCreated ==
    /\ Dependents(rejected) \cap created = {}
    /\ Settled => created = DOMAIN needs \ Dependents(rejected)

NothingTakenBack == created \subseteq created' /\ rejected \subseteq rejected'

OfTypeIn(resources, type) == {u \in DOMAIN resources : u[1] = type}
\* who a resource of the stack is: its logical name and the run that made it
Identity(resources, u) == <<u[2], resources[u].bornIn>>
RepositoryIdentities(resources) ==
    {Identity(resources, u) : u \in OfTypeIn(resources, "aws:ecr:Repository")}
\* the imageNames createEcrRepositories is invoked with
ImageNames == {DeployEcrConfig.haproxy.imageName, DeployEcrConfig.nginx.imageName}
RanBefore == cloud # NoResources

(***************************************************************************)
(* C15.  A run that invokes createEcrRepositories with the imageNames of   *)
(* the run before resolves to the same repositories: the stack holds       *)
(* exactly one repository per imageName, named by it, and after the run    *)
(* the same ones as before, none added.                                    *)
(***************************************************************************)
OneRepositoryPerImageName ==
    RanBefore =>
        {u[2] : u \in OfTypeIn(cloud, "aws:ecr:Repository")} = ImageNames

SameRepositoriesAfterwards ==
    (RanBefore /\ ~ret'.threw) =>
        /\ {r.name : r \in Repositories'} = ImageNames
        /\ RepositoryIdentities(cloud') = RepositoryIdentities(cloud)

Tiers == {"haproxy-service", "nginx-service"}
ServiceUrn(tier) == <<"aws:ecs:Service", tier>>
TaskUrn(tier) == <<"aws:ecs:TaskDefinition", tier \o "-task">>

OneTaskAndServicePerTier ==
    /\ (deploys > 0 /\ ~ret.threw) =>
          /\ \A tier \in Tiers :
                /\ Cardinality({k \in OfType("aws:ecs:Service") :
                                   registered[k].name = tier}) = 1
                /\ Cardinality({k \in OfType("aws:ecs:TaskDefinition") :
                                   registered[k].name = tier \o "-task"}) = 1
          /\ Cardinality(OfType("aws:ecs:Service")) = Cardinality(Tiers)
          /\ Cardinality(OfType("aws:ecs:TaskDefinition")) = Cardinality(Tiers)
    /\ RanBefore =>
          /\ OfTypeIn(cloud, "aws:ecs:Service") = {ServiceUrn(tier) : tier \in Tiers}
          /\ OfTypeIn(cloud, "aws:ecs:TaskDefinition") = {TaskUrn(tier) : tier \in Tiers}
          /\ \A tier \in Tiers :
                /\ cloud[ServiceUrn(tier)].args.name = tier
                /\ cloud[ServiceUrn(tier)].reads =
                      {<<tier \o "-task", cloud[TaskUrn(tier)].revision>>}

ServiceKeptAndRepointed ==
    (RanBefore /\ ~ret'.threw) =>
        \A tier \in Tiers :
            /\ Identity(cloud', ServiceUrn(tier)) = Identity(cloud, ServiceUrn(tier))
            /\ cloud'[TaskUrn(tier)].revision =
                  IF cloud'[TaskUrn(tier)].args # cloud[TaskUrn(tier)].args
                  THEN cloud[TaskUrn(tier)].revision + 1
                  ELSE cloud[TaskUrn(tier)].revision

FailedDeployChangesNothing == ret'.threw => cloud' = cloud

C16_ServiceIdentityAcrossRedeploys ==
    /\ [](OneTaskAndServicePerTier)
    /\ [][ServiceKeptAndRepointed /\ FailedDeployChangesNothing]_vars

C16_Witness ==
    /\ deploys = MaxDeploys
    /\ ~ret.threw
    /\ Identity(cloud, ServiceUrn("haproxy-service")) = <<"haproxy-service", 1>>
    /\ cloud[TaskUrn("haproxy-service")].revision = MaxDeploys
    /\ cloud[TaskUrn("nginx-service")].revision = 1

(***************************************************************************)
(* C21.  A topology createVpc returns has one NAT gateway, in the first    *)
(* public subnet, on the one elastic address; every public subnet is       *)
(* associated with the public route table only, whose one route is the     *)
(* default route to the internet gateway, and every private subnet with    *)
(* the private route table only, whose one route is the default route to   *)
(* that NAT gateway.                                                       *)
(***************************************************************************)
NatGateways == {registered[k] : k \in OfType("aws:ec2:NatGateway")}
ElasticAddresses == {registered[k] : k \in OfType("aws:ec2:Eip")}
InternetGateways == {registered[k] : k \in OfType("aws:ec2:InternetGateway")}
RouteTables == {registered[k] : k \in OfType("aws:ec2:RouteTable")}
TopologyBuilt == CreateVpcReturned \/ MainDeployed
FirstPublicSubnet == CHOOSE sn \in Subnets : sn.name = "public-subnet-0"

\* the route table has the default route alone, to this gateway or NAT gateway
DefaultRouteOnly(routeTable, gatewayId, natGatewayId) ==
    \E rt \in RouteTables :
        /\ rt.name = routeTable
        /\ Len(rt.args.routes) = 1
        /\ rt.args.routes[1].cidrBlock = AnyAddress
        /\ rt.args.routes[1].gatewayId = gatewayId
        /\ rt.args.routes[1].natGatewayId = natGatewayId

\* every subnet of the kind has one association, with this route table
AllRoutedBy(kind, routeTable) ==
    \A sn \in SubnetsOfKind(kind) :
        /\ Cardinality({k \in OfType("aws:ec2:RouteTableAssociation") :
                           registered[k].args.subnetId = IdOf(sn.name)}) = 1
        /\ IdOf(sn.name) \in SubnetIdsRoutedBy(routeTable)

C21_OneNatAndTierRouting ==
    TopologyBuilt =>
        /\ Cardinality(OfType("aws:ec2:NatGateway")) = 1
        /\ Cardinality(OfType("aws:ec2:Eip")) = 1
        /\ Cardinality(OfType("aws:ec2:InternetGateway")) = 1
        /\ Cardinality(OfType("aws:ec2:RouteTable")) = 2
        /\ \A nat \in NatGateways :
              /\ nat.args.subnetId = IdOf(FirstPublicSubnet.name)
              /\ FirstPublicSubnet.args.tags.Type = "Public"
              /\ \A eip \in ElasticAddresses : nat.args.allocationId = IdOf(eip.name)
              /\ DefaultRouteOnly("private-rt", undefined, IdOf(nat.name))
        /\ \A igw \in InternetGateways : DefaultRouteOnly("public-rt", IdOf(igw.name), undefined)
        /\ SubnetsOfKind("Public") # {}
        /\ SubnetsOfKind("Private") # {}
        /\ AllRoutedBy("Public", "public-rt")
        /\ AllRoutedBy("Private", "private-rt")

C21_Witness ==
    /\ CreateVpcReturned
    /\ Cardinality(SubnetsOfKind("Private")) = 3
    /\ Cardinality(OfType("aws:ec2:RouteTableAssociation")) = 6
    /\ Cardinality(OfType("aws:ec2:NatGateway")) = 1

(***************************************************************************)
(* Reading the spec createEcsService was called with.                      *)
(***************************************************************************)
\* the primary port and the additional ports, as a set
SpecPorts ==
    {call.config.containerPort}
        \cup {call.config.additionalPorts[k] : k \in 1..Len(call.config.additionalPorts)}
LogGroups == {registered[k] : k \in OfType("aws:cloudwatch:LogGroup")}

(***************************************************************************)
(* C22.  The port mappings of the container are the union of the primary   *)
(* port and the additional ports, each port mapped exactly once, also when *)
(* an additional port repeats the primary port or another additional port. *)
(***************************************************************************)
C22_PortMappingsAreTheUnion ==
    CreateEcsServiceDone =>
        \A td \in TaskDefinitions :
            /\ PortSet(td) = SpecPorts
            /\ Len(ContainerOf(td).portMappings) = Cardinality(SpecPorts)

(***************************************************************************)
(* C23 as claimed.  With logging enabled the call provisions exactly one   *)
(* log group, kept 7 days, and the container logs to it; with logging      *)
(* disabled it provisions none and the container has no log configuration. *)
(***************************************************************************)
LoggingRequested == call.config.enableLogging # Bool(FALSE)
NoLogConfiguration(td) ==
    /\ ~ContainerOf(td).logConfiguration.defined
    /\ ContainerOf(td).logConfiguration.logDriver = undefined
    /\ ContainerOf(td).logConfiguration.group = undefined
\* one log group, kept 7 days, and the container logs to it
OwnLogGroup(td) ==
    /\ Cardinality(OfType("aws:cloudwatch:LogGroup")) = 1
    /\ \A lg \in LogGroups :
          /\ lg.args.retentionInDays = 7
          /\ ContainerOf(td).logConfiguration.defined
          /\ ContainerOf(td).logConfiguration.logDriver = "awslogs"
          /\ ContainerOf(td).logConfiguration.group = NameOf(lg.name)

C25_ServiceCarriesTheSpec ==
    CreateEcsServiceDone =>
        /\ Cardinality(OfType("aws:ecs:Service")) = 1
        /\ \A svc \in Services :
              /\ \A td \in TaskDefinitions : svc.args.taskDefinition = ArnOf(td.name)
              /\ svc.args.networkConfiguration.subnets = call.config.subnets
              /\ svc.args.networkConfiguration.securityGroups = call.config.securityGroups
              /\ svc.args.networkConfiguration.assignPublicIp
                     = (call.config.assignPublicIp = Bool(TRUE))
              /\ (IsNumber(call.config.desiredCount) /\ call.config.desiredCount.val >= 0)
                     => svc.args.desiredCount = call.config.desiredCount.val
              /\ svc.args.serviceRegistries.defined
                     <=> call.config.serviceRegistryArn \notin {undefined, ""}
              /\ svc.args.serviceRegistries.defined
                     => svc.args.serviceRegistries.registryArn = call.config.serviceRegistryArn

(***************************************************************************)
(* C27.  The liveness probe of every task definition targets a port of    *)
(* the container's own port mappings.                                      *)
(***************************************************************************)
C27_ProbePortIsExposed ==
    (CreateEcsServiceDone \/ MainDeployed) =>
        \A td \in TaskDefinitions :
            \E port \in PortSet(td) :
                ContainerOf(td).healthCheck.command = ProbeCommand(port)

C27_Witness ==
    /\ CreateEcsServiceDone
    /\ call.config.containerPort = 443
    /\ call.config.additionalPorts = <<8080, 80>>
    /\ \A td \in TaskDefinitions : ContainerOf(td).healthCheck.command = ProbeCommand(80)
    /\ TaskDefinitions # {}

(***************************************************************************)
(* C26.  The entry point hands the configured serviceName to the factory   *)
(* as the kind: for every serviceName that is not a registered kind the    *)
(* run ends in a rejection and registers no resource, so a run that        *)
(* deploys has serviceName "react-service".                                *)
(***************************************************************************)
EntryRunning == call.fn = "main"

C26_UnregisteredServiceNameDeploysNothing ==
    EntryRunning =>
        /\ stack.serviceName \notin RegistrationTable =>
              /\ registered = <<>>
              /\ pc # "deployed"
              /\ pc = "done" => ret.threw
        /\ (pc = "deployed" \/ (pc = "done" /\ ~ret.threw)) =>
              /\ stack.serviceName = "react-service"
              /\ service.class = "ReactService"
              /\ registered # <<>>

C26_Witness ==
    /\ MainDone
    /\ stack.serviceName = "constructor"
    /\ ret.threw
    /\ service.class = "Config"
    /\ registered = <<>>

(***************************************************************************)
(* C28.  Whatever createEcrRepositories is handed (an entry omitted, two   *)
(* entries with the same imageName), it yields two repositories with       *)
(* different logical names, one per tier.                                  *)
(***************************************************************************)
CreateEcrRepositoriesDone == pc = "done" /\ call.fn = "createEcrRepositories"

C28_TwoDistinctRepositories ==
    CreateEcrRepositoriesDone =>
        /\ ~ret.threw
        /\ Len(registered) = 2
        /\ Cardinality({registered[k].name : k \in OfType("aws:ecr:Repository")}) = 2
        /\ ret.value.haproxyRepo.name # ret.value.nginxRepo.name

(***************************************************************************)
(* C29.  For every integer azCount handed to createVpc, also 0, a negative *)
(* one and none at all, the call does not throw and the NAT gateway it     *)
(* registers sits in a registered first public subnet.                     *)
(***************************************************************************)
IntegerOrOmittedAzCount ==
    /\ pc = "done"
    /\ call.fn = "createVpc"
    /\ (IsNumber(call.config.azCount) \/ call.config.azCount = undefinedNumber)

C29_NatHasFirstPublicSubnet ==
    IntegerOrOmittedAzCount =>
        /\ ~ret.threw
        /\ NatGateways # {}
        /\ \A nat \in NatGateways :
              \E sn \in SubnetsOfKind("Public") :
                  sn.name = "public-subnet-0" /\ nat.args.subnetId = IdOf(sn.name)

(***************************************************************************)
(* C30.  No resource of a deploy reads, directly or through other          *)
(* resources, a value of its own; and when the provider completes every    *)
(* creation it is handed, every resource of the deploy is eventually       *)
(* created and every output the deploy returned eventually resolves.       *)
(***************************************************************************)
\* S and everything a resource of S reads, directly or not
RECURSIVE Requirements(_)
Requirements(S) ==
    LET T == S \cup UNION {needs[m] : m \in S}
    IN  IF T = S THEN S ELSE Requirements(T)

Acyclic == \A n \in DOMAIN needs : n \notin Requirements(needs[n])

Deployed == EngineRunning /\ ~ret.threw
\* the outputs that are values of a resource belong to a created one
OutputsResolved ==
    \A k \in DOMAIN ret.value :
        (\E n \in DOMAIN needs : ret.value[k] \in Attributes(n))
            => \E n \in created : ret.value[k] \in Attributes(n)
AllCreated == Deployed /\ created = DOMAIN needs /\ OutputsResolved

C30_AcyclicAndEverythingCreated ==
    [](Acyclic) /\ (Deployed ~> AllCreated)

C30_Witness ==
    /\ Deployed
    /\ Settled
    /\ DOMAIN needs # {}
    /\ created = DOMAIN needs
    /\ OutputsResolved
    /\ \E k \in DOMAIN ret.value : ret.value[k] \in Attributes("nginx-service")

====
